---- MODULE Spec2Model ----
(***************************************************************************)
(* Model of sredun.py: the Receptor registry, prepare_files, the glosa     *)
(* retry wrapper, the disk cache of receptors_similarity, the sequential   *)
(* and pooled row comparison, and the selection / ranking part of main.    *)
(*                                                                         *)
(* Scores are integers in units of 1e-5 (0.9 is 90000, -1.0 is -100000).   *)
(* A text is a sequence of lines; a token is a sequence of characters.     *)
(* A process run is one execution of main(); the working directory (the    *)
(* .out cache files, the .pdb and -cf.pdb files) survives between runs,    *)
(* the process state (Receptor.index, the receptor list, ...) does not.    *)
(***************************************************************************)
EXTENDS Integers, Sequences, FiniteSets, TLC

\* ------------------------------------------------------------------ bounds
\* longest database (number of records) a run is given
MaxRecs == 2
\* number of process runs over the same working directory
MaxRuns == 2

\* -------------------------------------------------------- program constants
\* for i in range(3)
Retries == 3
\* the sentinel -1.0, in units of 1e-5
Sentinel == -100000
\* --threshold default 0.0
DefaultThreshold == 0

\* ------------------------------------------------------------------ strings
\* str.lower() on one character
LowerChar(c) ==
  CASE c = "A" -> "a"
    [] c = "B" -> "b"
    [] c = "C" -> "c"
    [] c = "E" -> "e"
    [] c = "K" -> "k"
    [] c = "O" -> "o"
    [] c = "P" -> "p"
    [] c = "T" -> "t"
    [] OTHER -> c

\* str.lower()
Lower(tok) == [i \in DOMAIN tok |-> LowerChar(tok[i])]

\* str.endswith(suffix)
EndsWith(s, suf) ==
  /\ Len(s) >= Len(suf)
  /\ SubSeq(s, Len(s) - Len(suf) + 1, Len(s)) = suf

PocketSuffix == <<"_", "p", "o", "c", "k", "e", "t">>

\* name = token.lower(); strip a trailing '_pocket'
NormalizeName(tok) ==
  LET low == Lower(tok)
  IN IF EndsWith(low, PocketSuffix)
       THEN SubSeq(low, 1, Len(low) - Len(PocketSuffix))
       ELSE low

\* ----------------------------------------------------------------- records
\* A pdb record is modelled by the tokens of its first line
\* (pdb.splitlines()[0].split()).
HeaderTok == <<"H">>
RawRecords ==
  { <<HeaderTok>>,
    <<HeaderTok, <<"A", "_", "P", "O", "C", "K", "E", "T">>>>,
    <<HeaderTok, <<"b">>>> }

\* len(split_pdb[0].split()) < 2
Malformed(pdb) == Len(pdb) < 2

NullReceptor ==
  [valid |-> FALSE, name |-> <<>>, index |-> "None", info |-> "None"]

\* Receptor.__init__(pdb) when the class counter Receptor.index is `counter`.
\* info is formatted before self.index is assigned, so it reads the class
\* attribute; index is then the counter formatted as a string.
Receptor(pdb, counter) ==
  IF Malformed(pdb)
    THEN NullReceptor
    ELSE [valid |-> TRUE,
          name  |-> NormalizeName(pdb[2]),
          index |-> ToString(counter),
          info  |-> ToString(counter)]

\* variant: the counter is bumped for a malformed record as well
BumpIndexAlways(pdb, counter) == counter + 1

\* Receptor.index += 1, reached only past the early return
BumpIndex(pdb, counter) == IF Malformed(pdb) THEN counter ELSE counter + 1

AllNames == {NormalizeName(r[2]) : r \in {x \in RawRecords : ~Malformed(x)}}

\* f'{directory}{name1}_{name2}.out'
OutFile(n1, n2) == n1 \o <<"_">> \o n2 \o <<".out">>

AllOutFiles == {OutFile(x, y) : x \in AllNames, y \in AllNames}

\* ------------------------------------------------------------ glosa output
GALine(v)  == [head |-> "GA-score", num |-> TRUE, val |-> v]
BadGALine  == [head |-> "GA-score", num |-> FALSE, val |-> 0]
OtherLine  == [head |-> "other", num |-> FALSE, val |-> 0]

\* texts the external scorer can print on exit status 0
Outputs ==
  { <<OtherLine>>,
    <<OtherLine, GALine(50004), GALine(90000)>>,
    <<BadGALine>> }

RECURSIVE ScanGA(_, _)
ScanGA(lines, k) ==
  IF k > Len(lines)
    THEN [err |-> FALSE, val |-> Sentinel]
    ELSE IF lines[k].head = "GA-score"
           THEN IF lines[k].num
                  THEN [err |-> FALSE, val |-> lines[k].val]
                  ELSE [err |-> TRUE, val |-> 0]
           ELSE ScanGA(lines, k + 1)

\* get_ga_score: the first line starting with 'GA-score' decides; float()
\* raises ValueError (err) on a value that is no number; -1.0 without marker
get_ga_score(text) == ScanGA(text, 1)

\* float comparison score >= 0.0, else the error branch returns 0.0
ClipScore(score) == IF score >= 0 THEN score ELSE 0

\* round(x, 4) on a value in units of 1e-5 (round half to even)
Round4(x) ==
  LET q == x \div 10
      r == x % 10
  IN IF r < 5 THEN q * 10
     ELSE IF r > 5 THEN (q + 1) * 10
     ELSE IF q % 2 = 0 THEN q * 10 ELSE (q + 1) * 10

\* round(x, 4) if x >= args.threshold else 0.0
ThresholdEntry(x, t) == IF x >= t THEN Round4(x) ELSE 0

\* --------------------------------------------------------- external scorer
\* what one subprocess.check_output(cmd) can do: exit 0 with a text, exit
\* non-zero (CalledProcessError), or fail otherwise (OSError, decode error)
Outcomes ==
  { [kind |-> "nonzero", out |-> <<>>], [kind |-> "oserror", out |-> <<>>] }
  \cup { [kind |-> "exit0", out |-> o] : o \in Outputs }

NoOutcome == [known |-> FALSE, kind |-> "none", out |-> <<>>]

\* --------------------------------------------------------------- arguments
Modes == {"all", "pro", "map"}

\* args.protein: the default is the integer -1, -p gives a list of integers
DefaultProtein == [isList |-> FALSE, vals |-> <<-1>>]
ProteinArgs ==
  {DefaultProtein}
  \cup { [isList |-> TRUE, vals |-> <<i>>] : i \in 0..MaxRecs }
  \cup { [isList |-> TRUE, vals |-> <<i, j>>] : i, j \in 0..MaxRecs }

\* the -p value tried together with mode 'all', where it decides the ranking
\* section alone
AllModeProteins == {[isList |-> TRUE, vals |-> <<MaxRecs - 1>>]}

Databases == UNION { [1..n -> RawRecords] : n \in 1..MaxRecs }

\* ------------------------------------------------------------------- state
VARIABLES
  args,             \* the parsed command line (database, mode, protein, concurrency)
  oracle,           \* what the external scorer does on a pair of inputs
  outFiles,         \* the <name>_<name>.out cache files of the working directory
  pdbFiles,         \* names whose <name>_pocket.pdb exists
  cfFiles,          \* names whose <name>_pocket-cf.pdb exists
  run,              \* number of the current process run
  pc,               \* position of main()
  exitStatus,       \* -1 while running, else the exit status of the process
  crash,            \* the uncaught exception that ended the run, or "none"
  Receptor_index,   \* the class attribute Receptor.index
  receptors,        \* main's list receptors
  prepared,         \* results of prepare_files so far
  srcs,             \* indices of the source receptors, one per row
  recs,             \* indices of the targets of every row
  raw_similarities, \* rows produced so far
  tasks,            \* the calls of receptors_similarity of the current row
  similarities,     \* the thresholded matrix
  ranked,           \* the RECEPTOR SIMILARITIES section
  rowStart,         \* history: outFiles when the current row began
  runCalls,         \* history: the scorer was invoked in this run
  runWrites,        \* history: a cache file was written in this run
  runLookups,       \* history: the cache was looked up in this run
  cachedAtStart,    \* history: every requested pair was cached when comparison began
  computedLog,      \* history: pairs computed and stored, with the score returned
  prevMatrix,       \* history: raw_similarities of the previous run
  prevIndex         \* history: indices assigned by the previous run

cfgVars  == <<args>>
diskVars == <<outFiles, pdbFiles, cfFiles>>
procVars == <<run, pc, exitStatus, crash, Receptor_index, receptors, prepared,
              srcs, recs, raw_similarities, tasks, similarities, ranked>>
procVarsButTasks == <<run, pc, exitStatus, crash, Receptor_index, receptors,
                      prepared, srcs, recs, raw_similarities, similarities,
                      ranked>>
histVars == <<rowStart, runCalls, runWrites, runLookups, cachedAtStart,
              computedLog, prevMatrix, prevIndex>>
vars == <<cfgVars, oracle, diskVars, procVars, histVars>>

NoFile == [exists |-> FALSE, text |-> <<>>]
NoRanked == [emitted |-> FALSE, list |-> <<>>]
NoPrev == [has |-> FALSE, val |-> <<>>]

\* Path(f).exists()
Exists(files, f) == files[f].exists

Init ==
  /\ args \in { a \in [database : Databases, mode : Modes,
                       protein : ProteinArgs, concurrency : BOOLEAN] :
                  /\ a.mode = "map" => a.protein = DefaultProtein /\ ~a.concurrency
                  /\ a.mode = "all" => a.protein \in AllModeProteins }
  /\ oracle = [k \in AllNames \X AllNames |-> NoOutcome]
  /\ outFiles = [f \in AllOutFiles |-> NoFile]
  /\ pdbFiles = {}
  /\ cfFiles = {}
  /\ run = 1
  /\ pc = "register"
  /\ exitStatus = -1
  /\ crash = "none"
  /\ Receptor_index = 0
  /\ receptors = <<>>
  /\ prepared = <<>>
  /\ srcs = <<>>
  /\ recs = <<>>
  /\ raw_similarities = <<>>
  /\ tasks = <<>>
  /\ similarities = <<>>
  /\ ranked = NoRanked
  /\ rowStart = outFiles
  /\ runCalls = FALSE
  /\ runWrites = FALSE
  /\ runLookups = FALSE
  /\ cachedAtStart = FALSE
  /\ computedLog = {}
  /\ prevMatrix = NoPrev
  /\ prevIndex = NoPrev

\* an uncaught exception: traceback, exit status 1
Crash(why) ==
  /\ pc' = "exit"
  /\ exitStatus' = 1
  /\ crash' = why

\* sys.exit(status)
Exit(status) ==
  /\ pc' = "exit"
  /\ exitStatus' = status
  /\ crash' = "none"

\* ------------------------------------------------------------ registration
\* receptors = [Receptor(pdb, args.dir) for pdb in pdbs], one record a step
Register ==
  /\ pc = "register"
  /\ LET k == Len(receptors) + 1
         pdb == args.database[k]
     IN /\ receptors' = Append(receptors, Receptor(pdb, Receptor_index))
        /\ Receptor_index' = BumpIndex(pdb, Receptor_index)
        /\ pc' = IF k = Len(args.database) THEN "prepare" ELSE "register"
  /\ UNCHANGED <<cfgVars, oracle, diskVars, histVars, run, exitStatus, crash,
                 prepared, srcs, recs, raw_similarities, tasks, similarities,
                 ranked>>

\* ------------------------------------------------------------- preparation
\* what subprocess.call(['java', 'AssignChemicalFeatures', pdb]) can do: its
\* exit status, and whether the -cf.pdb file exists afterwards
JavaResults == [ret : {0, 1}, created : BOOLEAN]

\* prepare_files(receptor) for a receptor whose -cf.pdb is on disk already, or
\* after the java call returned `java`
PrepareResult(name, cf, java) ==
  IF name \in cf
    THEN TRUE
    ELSE java.ret = 0 /\ java.created

\* one call of prepare_files inside the list comprehension of line 224; a
\* null receptor has filename None, and Path(None) raises TypeError
Prepare ==
  /\ pc = "prepare"
  /\ Len(prepared) < Len(receptors)
  /\ LET r == receptors[Len(prepared) + 1]
     IN IF ~r.valid
          THEN /\ Crash("TypeError")
               /\ UNCHANGED <<prepared, pdbFiles, cfFiles>>
          ELSE /\ pdbFiles' = pdbFiles \cup {r.name}
               /\ \E java \in JavaResults :
                    /\ cfFiles' = IF r.name \notin cfFiles /\ java.created
                                    THEN cfFiles \cup {r.name}
                                    ELSE cfFiles
                    /\ prepared' = Append(prepared, PrepareResult(r.name, cfFiles, java))
               /\ UNCHANGED <<pc, exitStatus, crash>>
  /\ UNCHANGED <<cfgVars, oracle, outFiles, histVars, run, Receptor_index,
                 receptors, srcs, recs, raw_similarities, tasks, similarities,
                 ranked>>

\* variant: one prepared receptor is enough
AnyPrepared(results) == \E i \in DOMAIN results : results[i]

\* all([prepare_files(receptor) for receptor in receptors])
AllPrepared(results) == \A i \in DOMAIN results : results[i]

\* lines 224-228: the gate after every receptor was prepared
Gate ==
  /\ pc = "prepare"
  /\ Len(prepared) = Len(receptors)
  /\ IF AllPrepared(prepared)
       THEN /\ pc' = "mapping"
            /\ UNCHANGED <<exitStatus, crash>>
       ELSE Exit(1)
  /\ UNCHANGED <<cfgVars, oracle, diskVars, histVars, run, Receptor_index,
                 receptors, prepared, srcs, recs, raw_similarities, tasks,
                 similarities, ranked>>

\* lines 236-248: the mapping section; mode 'map' ends here
Mapping ==
  /\ pc = "mapping"
  /\ IF args.mode = "map"
       THEN Exit(0)
       ELSE /\ pc' = "select"
            /\ UNCHANGED <<exitStatus, crash>>
  /\ UNCHANGED <<cfgVars, oracle, diskVars, histVars, run, Receptor_index,
                 receptors, prepared, srcs, recs, raw_similarities, tasks,
                 similarities, ranked>>

\* --------------------------------------------------------------- selection
\* len(receptors) > i >= 0
InRange(i, n) == n > i /\ i >= 0

AllIndices(n) == [k \in 1..n |-> k]

\* variant: the opposite ordering is not looked up
CachedMainOnly(files, n1, n2) == Exists(files, OutFile(n1, n2))

\* not (not exists(output_filename) and not exists(output_filename_opt))
Cached(files, n1, n2) ==
  ~(~Exists(files, OutFile(n1, n2)) /\ ~Exists(files, OutFile(n2, n1)))

\* every pair this run asks for has a cache file under one of its orderings
FullyCached(files, rs, ss, ts) ==
  \A i \in DOMAIN ss : \A j \in DOMAIN ts :
    \/ Exists(files, OutFile(rs[ss[i]].name, rs[ts[j]].name))
    \/ Exists(files, OutFile(rs[ts[j]].name, rs[ss[i]].name))

\* lines 250-263: which rows and which targets are compared (1-based here)
Select ==
  /\ pc = "select"
  /\ LET n == Len(receptors)
         p == args.protein
         go(ss, ts) ==
           /\ srcs' = ss
           /\ recs' = ts
           /\ cachedAtStart' = FullyCached(outFiles, receptors, ss, ts)
           /\ pc' = "compare"
           /\ UNCHANGED <<exitStatus, crash>>
     IN IF args.mode = "pro"
          THEN IF ~p.isList
                 THEN /\ Crash("TypeError")
                      /\ UNCHANGED <<srcs, recs, cachedAtStart>>
                 ELSE IF Len(p.vals) = 1 /\ InRange(p.vals[1], n)
                        THEN go(<<p.vals[1] + 1>>, AllIndices(n))
                 ELSE IF /\ Len(p.vals) = 2
                         /\ InRange(p.vals[1], n)
                         /\ InRange(p.vals[2], n)
                        THEN go(<<p.vals[1] + 1>>, <<p.vals[2] + 1>>)
                 ELSE /\ Exit(1)
                      /\ UNCHANGED <<srcs, recs, cachedAtStart>>
          ELSE go(AllIndices(n), AllIndices(n))
  /\ UNCHANGED <<cfgVars, oracle, diskVars, run, Receptor_index, receptors,
                 prepared, raw_similarities, tasks, similarities, ranked,
                 rowStart, runCalls, runWrites, runLookups, computedLog,
                 prevMatrix, prevIndex>>

\* -------------------------------------------------- receptors_similarity
\* One call of receptors_similarity(receptor1, receptor2) is a task:
\*   check  the exists() test of line 137
\*   glosa  inside the retry loop of glosa()
\*   open   before open(output_filename, 'w'), which creates or truncates
\*   write  before results.write(...) and the close that flushes it
\*   read   before the cached file is chosen, opened and read
\*   done   returned ret;  raised  left by an exception exc
\* att lists what every scorer invocation of the call did; transient, wrote
\* and saw are history (transient: how many of the invocations failed though
\* the scorer answers the pair otherwise; saw: the scores returned by the
\* stored computations of the pair in the opposite ordering that ended before
\* this call began).
NewTask ==
  [pc |-> "check", att |-> <<>>, transient |-> 0, output |-> <<>>,
   score |-> 0, ret |-> 0, exc |-> "none", wrote |-> FALSE, saw |-> {}]

Src == receptors[srcs[Len(raw_similarities) + 1]]
Tgt(t) == receptors[recs[t]]

\* receptor_compare evaluates the calls one after the other; the workers of
\* receptor_compare_con's pool run them in any interleaving
Schedulable(t) ==
  IF args.concurrency
    THEN TRUE
    ELSE \A j \in 1..(t - 1) : tasks[j].pc = "done"

\* lines 156-164: a row begins
StartRow ==
  /\ pc = "compare"
  /\ Len(raw_similarities) < Len(srcs)
  /\ tasks' = [j \in 1..Len(recs) |-> NewTask]
  /\ rowStart' = outFiles
  /\ pc' = "row"
  /\ UNCHANGED <<cfgVars, oracle, diskVars, run, exitStatus, crash,
                 Receptor_index, receptors, prepared, srcs, recs,
                 raw_similarities, similarities, ranked, runCalls, runWrites,
                 runLookups, cachedAtStart, computedLog, prevMatrix, prevIndex>>

\* line 137
Check(t) ==
  /\ pc = "row"
  /\ t \in DOMAIN tasks
  /\ Schedulable(t)
  /\ tasks[t].pc = "check"
  /\ LET n1 == Src.name
         n2 == Tgt(t).name
         before == {e.score : e \in {x \in computedLog : x.n1 = n2 /\ x.n2 = n1}}
     IN tasks' = [tasks EXCEPT ![t].pc = IF Cached(outFiles, n1, n2)
                                           THEN "read" ELSE "glosa",
                               ![t].saw = before]
  /\ runLookups' = TRUE
  /\ UNCHANGED <<cfgVars, oracle, diskVars, run, pc, exitStatus, crash,
                 Receptor_index, receptors, prepared, srcs, recs,
                 raw_similarities, similarities, ranked, rowStart, runCalls,
                 runWrites, cachedAtStart, computedLog, prevMatrix, prevIndex>>

\* variant: one attempt too many
MoreAttemptsOffByOne(n) == n <= Retries

\* for i in range(3): whether the loop goes on after n failed attempts
MoreAttempts(n) == n < Retries

\* lines 122-128: one pass of the loop body of glosa(), the scorer doing o.
\* Only CalledProcessError is caught; the return inside try ends the loop on
\* any text printed with exit status 0.
GlosaBody(task, o) ==
  LET tried == Append(task.att, o.kind)
      g == get_ga_score(o.out)
  IN CASE o.kind = "exit0" ->
            IF g.err
              THEN [task EXCEPT !.att = tried, !.pc = "raised",
                                !.exc = "ValueError"]
              ELSE [task EXCEPT !.att = tried, !.pc = "open",
                                !.output = o.out, !.score = g.val]
       [] o.kind = "nonzero" ->
            IF MoreAttempts(Len(tried))
              THEN [task EXCEPT !.att = tried]
              ELSE [task EXCEPT !.att = tried, !.pc = "open",
                                !.score = Sentinel]
       [] OTHER ->
            [task EXCEPT !.att = tried, !.pc = "raised", !.exc = "OSError"]

NonZeroExit == [kind |-> "nonzero", out |-> <<>>]

\* how many times in a row the scorer fails in passing: never, on every
\* attempt but the last, on every attempt
TransientFailures == {0, Retries - 1, Retries}

\* glosa() when the scorer exits non-zero on its first m invocations and does
\* o on the later ones: the loop body is run until it returns or raises
RECURSIVE GlosaRun(_, _, _)
GlosaRun(task, m, o) ==
  IF task.pc # "glosa"
    THEN task
    ELSE GlosaRun(GlosaBody(task, IF Len(task.att) < m THEN NonZeroExit ELSE o), m, o)

\* lines 118-128, 138-139: the call of glosa(). It touches nothing the
\* other calls share, so it is one step. The scorer's answer o to a pair of
\* inputs is fixed the first time it is given; before giving it the scorer
\* can fail m times for a passing reason (exit non-zero).
GlosaCall(t) ==
  /\ pc = "row"
  /\ t \in DOMAIN tasks
  /\ Schedulable(t)
  /\ tasks[t].pc = "glosa"
  /\ LET key == <<Src.name, Tgt(t).name>>
     IN \E o \in Outcomes, m \in TransientFailures :
          /\ IF m = Retries
               THEN /\ o = NonZeroExit
                    /\ oracle' = oracle
               ELSE /\ o.kind = "nonzero" => m = 0
                    /\ oracle[key].known =>
                         (o.kind = oracle[key].kind /\ o.out = oracle[key].out)
                    /\ oracle' = [oracle EXCEPT ![key] =
                                    [known |-> TRUE, kind |-> o.kind, out |-> o.out]]
          /\ LET res == GlosaRun(tasks[t], m, o)
             IN /\ tasks' = [tasks EXCEPT ![t] = [res EXCEPT !.transient = m]]
                /\ runCalls' = (runCalls \/ res.att # <<>>)
  /\ UNCHANGED <<cfgVars, diskVars, run, pc, exitStatus, crash,
                 Receptor_index, receptors, prepared, srcs, recs,
                 raw_similarities, similarities, ranked, rowStart, runWrites,
                 runLookups, cachedAtStart, computedLog, prevMatrix, prevIndex>>

\* line 140: open(output_filename, 'w') creates the file empty, or truncates it
OpenOut(t) ==
  /\ pc = "row"
  /\ t \in DOMAIN tasks
  /\ Schedulable(t)
  /\ tasks[t].pc = "open"
  /\ outFiles' = [outFiles EXCEPT ![OutFile(Src.name, Tgt(t).name)] =
                    [exists |-> TRUE, text |-> <<>>]]
  /\ tasks' = [tasks EXCEPT ![t].pc = "write"]
  /\ UNCHANGED <<cfgVars, oracle, pdbFiles, cfFiles, procVarsButTasks, histVars>>

\* lines 141, 147-153: results.write(result['output']), the close, and the
\* return of the clipped score
WriteOut(t) ==
  /\ pc = "row"
  /\ t \in DOMAIN tasks
  /\ Schedulable(t)
  /\ tasks[t].pc = "write"
  /\ LET n1 == Src.name
         n2 == Tgt(t).name
         ret == ClipScore(tasks[t].score)
     IN /\ outFiles' = [outFiles EXCEPT ![OutFile(n1, n2)] =
                          [exists |-> TRUE, text |-> tasks[t].output]]
        /\ tasks' = [tasks EXCEPT ![t].pc = "done", ![t].ret = ret,
                                  ![t].wrote = TRUE]
        /\ computedLog' = computedLog \cup {[n1 |-> n1, n2 |-> n2, score |-> ret]}
  /\ runWrites' = TRUE
  /\ UNCHANGED <<cfgVars, oracle, pdbFiles, cfFiles, procVarsButTasks, rowStart,
                 runCalls, runLookups, cachedAtStart, prevMatrix, prevIndex>>

\* lines 143-153: the file under the first ordering if it exists, else the
\* other one, is read as it is at this moment and parsed again
ReadCached(t) ==
  /\ pc = "row"
  /\ t \in DOMAIN tasks
  /\ Schedulable(t)
  /\ tasks[t].pc = "read"
  /\ LET n1 == Src.name
         n2 == Tgt(t).name
         filename == IF Exists(outFiles, OutFile(n1, n2))
                       THEN OutFile(n1, n2) ELSE OutFile(n2, n1)
         g == get_ga_score(outFiles[filename].text)
     IN tasks' = [tasks EXCEPT ![t] =
                    IF g.err
                      THEN [@ EXCEPT !.pc = "raised", !.exc = "ValueError"]
                      ELSE [@ EXCEPT !.pc = "done", !.score = g.val,
                                     !.ret = ClipScore(g.val)]]
  /\ UNCHANGED <<cfgVars, oracle, diskVars, procVarsButTasks, histVars>>

Finished(t) == tasks[t].pc \in {"done", "raised"}
Raised == {t \in DOMAIN tasks : tasks[t].pc = "raised"}

\* the list comprehension of line 157 stops at the first exception; starmap
\* (line 163) waits for every call and then raises the first exception
RowOver ==
  IF args.concurrency
    THEN \A t \in DOMAIN tasks : Finished(t)
    ELSE Raised # {} \/ \A t \in DOMAIN tasks : tasks[t].pc = "done"

\* the list of return values, in the order the targets were submitted
RowResults(ts) == [j \in DOMAIN ts |-> ts[j].ret]

\* lines 157, 163-164, 260, 263: the row is complete
EndRow ==
  /\ pc = "row"
  /\ RowOver
  /\ IF Raised # {}
       THEN /\ Crash(tasks[CHOOSE t \in Raised : \A u \in Raised : t <= u].exc)
            /\ UNCHANGED <<raw_similarities, tasks>>
       ELSE /\ raw_similarities' = Append(raw_similarities, RowResults(tasks))
            /\ tasks' = <<>>
            /\ pc' = "compare"
            /\ UNCHANGED <<exitStatus, crash>>
  /\ rowStart' = outFiles
  /\ UNCHANGED <<cfgVars, oracle, diskVars, run, Receptor_index, receptors,
                 prepared, srcs, recs, similarities, ranked, runCalls,
                 runWrites, runLookups, cachedAtStart, computedLog, prevMatrix,
                 prevIndex>>

\* line 266: threshold and round every entry
Threshold ==
  /\ pc = "compare"
  /\ Len(raw_similarities) = Len(srcs)
  /\ similarities' = [i \in DOMAIN raw_similarities |->
                        [j \in DOMAIN raw_similarities[i] |->
                           ThresholdEntry(raw_similarities[i][j], DefaultThreshold)]]
  /\ pc' = "rank"
  /\ UNCHANGED <<cfgVars, oracle, diskVars, histVars, run, exitStatus, crash,
                 Receptor_index, receptors, prepared, srcs, recs,
                 raw_similarities, tasks, ranked>>

\* ----------------------------------------------------------------- ranking
\* sorted(items, key=lambda item: item[1], reverse=True): stable, equal
\* scores keep their order. Insert item e behind every item scoring >= e.
RECURSIVE InsertDesc(_, _)
InsertDesc(sorted, e) ==
  IF sorted = <<>>
    THEN <<e>>
    ELSE IF Head(sorted).v >= e.v
           THEN <<Head(sorted)>> \o InsertDesc(Tail(sorted), e)
           ELSE <<e>> \o sorted

RECURSIVE SortDesc(_, _)
SortDesc(items, k) ==
  IF k = 0 THEN <<>> ELSE InsertDesc(SortDesc(items, k - 1), items[k])

\* lines 288-295: enumerate the row, sort it, round it, look up the receptor
RankRow(row, rs) ==
  LET items == [k \in DOMAIN row |-> [k |-> k - 1, v |-> row[k]]]
      order == SortDesc(items, Len(items))
  IN [i \in DOMAIN order |->
        [key |-> order[i].k, score |-> Round4(order[i].v),
         info |-> rs[order[i].k + 1].info]]

\* line 286: args.protein[0] if len(args.protein) == 1 else 0
RankedRowIndex(p) == IF Len(p.vals) = 1 THEN p.vals[1] ELSE 0

\* lines 274-307: the RECEPTOR SIMILARITIES section. len() of the default
\* protein (an int) raises TypeError; raw_similarities[i] raises IndexError
\* when the matrix has fewer rows.
Rank ==
  /\ pc = "rank"
  /\ LET n == Len(receptors)
         p == args.protein
         mode == IF args.mode = "pro" /\ p.isList /\ Len(p.vals) > 1
                   THEN "" ELSE args.mode
         i == RankedRowIndex(p)
     IN IF args.mode = "pro" /\ ~p.isList
          THEN Crash("TypeError") /\ UNCHANGED ranked
        ELSE IF mode \notin {"all", "pro", "sim", "dist"}
          THEN Exit(0) /\ UNCHANGED ranked
        ELSE IF ~p.isList
          THEN Crash("TypeError") /\ UNCHANGED ranked
        ELSE IF \/ Len(p.vals) = 1 /\ InRange(p.vals[1], n)
                \/ /\ Len(p.vals) = 2
                   /\ InRange(p.vals[1], n)
                   /\ InRange(p.vals[2], n)
          THEN IF i + 1 \in DOMAIN raw_similarities
                 THEN /\ ranked' = [emitted |-> TRUE,
                                    list |-> RankRow(raw_similarities[i + 1], receptors)]
                      /\ Exit(0)
                 ELSE Crash("IndexError") /\ UNCHANGED ranked
        ELSE Exit(0) /\ UNCHANGED ranked
  /\ UNCHANGED <<cfgVars, oracle, diskVars, histVars, run, Receptor_index,
                 receptors, prepared, srcs, recs, raw_similarities, tasks,
                 similarities>>

\* ------------------------------------------------------------ the next run
Indices(rs) == [k \in DOMAIN rs |-> rs[k].index]

\* line 27: class attribute index = 0 when the module is loaded
FreshCounter(counter) == 0

\* the program is started again on the same database, with the same
\* arguments, in the same working directory
Restart ==
  /\ pc = "exit"
  /\ run < MaxRuns
  /\ run' = run + 1
  /\ pc' = "register"
  /\ exitStatus' = -1
  /\ crash' = "none"
  /\ Receptor_index' = FreshCounter(Receptor_index)
  /\ receptors' = <<>>
  /\ prepared' = <<>>
  /\ srcs' = <<>>
  /\ recs' = <<>>
  /\ raw_similarities' = <<>>
  /\ tasks' = <<>>
  /\ similarities' = <<>>
  /\ ranked' = NoRanked
  /\ rowStart' = outFiles
  /\ runCalls' = FALSE
  /\ runWrites' = FALSE
  /\ runLookups' = FALSE
  /\ cachedAtStart' = FALSE
  /\ prevMatrix' = IF similarities # <<>>
                     THEN [has |-> TRUE, val |-> raw_similarities]
                     ELSE NoPrev
  /\ prevIndex' = IF Len(receptors) = Len(args.database)
                    THEN [has |-> TRUE, val |-> Indices(receptors)]
                    ELSE NoPrev
  /\ UNCHANGED <<cfgVars, oracle, diskVars, computedLog>>

Next ==
  \/ Register
  \/ Prepare
  \/ Gate
  \/ Mapping
  \/ Select
  \/ StartRow
  \/ \E t \in 1..MaxRecs : Check(t)
  \/ \E t \in 1..MaxRecs : GlosaCall(t)
  \/ \E t \in 1..MaxRecs : OpenOut(t)
  \/ \E t \in 1..MaxRecs : WriteOut(t)
  \/ \E t \in 1..MaxRecs : ReadCached(t)
  \/ EndRow
  \/ Threshold
  \/ Rank
  \/ Restart

Spec == Init /\ [][Next]_vars

\* ------------------------------------------------- sequential reference
\* glosa() when every invocation of the scorer does o
GlosaFixed(task, o) == GlosaRun(task, 0, o)

\* receptor_compare(receptor, receptors) from target j on, as a function of
\* the cache files and of a scorer that answers every pair of inputs the same
\* way each time (orc); ok is FALSE when a call raises
RECURSIVE receptor_compare(_, _, _, _, _, _)
receptor_compare(files, orc, rs, src, ts, j) ==
  IF j > Len(ts)
    THEN [ok |-> TRUE, row |-> <<>>]
    ELSE
      LET n1 == rs[src].name
          n2 == rs[ts[j]].name
          main == OutFile(n1, n2)
          hit == Cached(files, n1, n2)
          filename == IF Exists(files, main) THEN main ELSE OutFile(n2, n1)
          g == get_ga_score(files[filename].text)
          o == [kind |-> orc[<<n1, n2>>].kind, out |-> orc[<<n1, n2>>].out]
          res == GlosaFixed([NewTask EXCEPT !.pc = "glosa"], o)
          raised == IF hit THEN g.err ELSE res.pc = "raised"
          score == IF hit THEN g.val ELSE res.score
          after == IF hit THEN files
                   ELSE [files EXCEPT ![main] = [exists |-> TRUE, text |-> res.output]]
          rest == receptor_compare(after, orc, rs, src, ts, j + 1)
      IN IF raised \/ ~rest.ok
           THEN [ok |-> FALSE, row |-> <<>>]
           ELSE [ok |-> TRUE, row |-> <<ClipScore(score)>> \o rest.row]

\* the scorer has answered every pair the current row had to compute
RowAnswered ==
  \A t \in DOMAIN tasks :
    Cached(rowStart, Src.name, Tgt(t).name) \/ oracle[<<Src.name, Tgt(t).name>>].known

RowDone == pc = "row" /\ tasks # <<>> /\ \A t \in DOMAIN tasks : tasks[t].pc = "done"

\* no invocation of the current row failed for a passing reason
NoTransient == \A t \in DOMAIN tasks : tasks[t].transient = 0

SequentialRow == receptor_compare(rowStart, oracle, receptors, srcs[Len(raw_similarities) + 1], recs, 1)

\* sanity: the sequential strategy of the model is the function above
SequentialIsReference ==
  (RowDone /\ ~args.concurrency /\ NoTransient) =>
    /\ RowAnswered
    /\ SequentialRow.ok
    /\ SequentialRow.row = RowResults(tasks)

\* ================================================================== claims
ValidRecords(db) == {i \in DOMAIN db : ~Malformed(db[i])}
DistinctNames(db) ==
  \A i, j \in ValidRecords(db) :
    i # j => NormalizeName(db[i][2]) # NormalizeName(db[j][2])
MatrixDone == similarities # <<>>
AllNonzero(a) == a # <<>> /\ \A i \in DOMAIN a : a[i] = "nonzero"
Returned(t) == tasks[t].pc \in {"open", "write", "done"}

\* C1. Cache idempotence: when every pair a run asks for has a cache file
\* (under either ordering) as comparison begins, the run invokes the scorer
\* zero times, writes no cache file, and its matrix is the matrix of the
\* previous run.
C1_CacheIdempotence ==
  cachedAtStart =>
    /\ ~runCalls
    /\ ~runWrites
    /\ (MatrixDone /\ prevMatrix.has) => raw_similarities = prevMatrix.val

\* C2. Symmetry via reuse: a request for (B,A) begun after (A,B) was computed
\* and stored returns the score (A,B) returned, invokes no scorer and writes
\* no cache file.
C2_SymmetryViaReuse ==
  \A t \in DOMAIN tasks :
    (tasks[t].pc = "done" /\ tasks[t].saw # {}) =>
      /\ \A s \in tasks[t].saw : tasks[t].ret = s
      /\ tasks[t].att = <<>>
      /\ ~tasks[t].wrote

\* C3. Retry bound: a call whose scorer invocations all exit non-zero invokes
\* the scorer exactly 3 times (never a 4th), gets the sentinel -1.0 from
\* glosa, and does not raise, so the run goes on.
C3_RetryBound ==
  \A t \in DOMAIN tasks :
    /\ Len(tasks[t].att) <= Retries
    /\ AllNonzero(tasks[t].att) =>
         /\ tasks[t].pc # "raised"
         /\ Returned(t) =>
              /\ Len(tasks[t].att) = Retries
              /\ tasks[t].score = Sentinel
              /\ tasks[t].output = <<>>

\* C3 witness: sequential run; a call failed 3 times and returned, and the
\* next call of the row has invoked the scorer
C3_Witness ==
  /\ ~args.concurrency
  /\ \E t, u \in DOMAIN tasks :
       /\ t < u
       /\ tasks[t].pc = "done"
       /\ AllNonzero(tasks[t].att)
       /\ Len(tasks[t].att) = Retries
       /\ tasks[t].ret = 0
       /\ tasks[u].att # <<>>

\* C4. Every kind of bad attempt (non-zero exit, exception, text without a
\* parseable score) uses up one of the 3 attempts and is retried; no error
\* leaves the scorer.
C4_BadAttemptsRetried ==
  \A t \in DOMAIN tasks :
    /\ ~(tasks[t].pc = "raised" /\ tasks[t].att # <<>>)
    /\ (Returned(t) /\ tasks[t].att # <<>> /\ tasks[t].score = Sentinel) =>
         Len(tasks[t].att) = Retries

\* C5. Fatal gating: no cache lookup and no scorer invocation happens before
\* all receptors were prepared; once a prepare_files returned False there is
\* no lookup, no invocation, no matrix and no ranking, and the process ends
\* with a non-zero status.
C5_FatalGating ==
  /\ (runLookups \/ runCalls \/ tasks # <<>>) =>
       /\ Len(receptors) = Len(args.database)
       /\ Len(prepared) = Len(receptors)
  /\ (\E i \in DOMAIN prepared : ~prepared[i]) =>
       /\ ~runLookups
       /\ ~runCalls
       /\ ~runWrites
       /\ tasks = <<>>
       /\ raw_similarities = <<>>
       /\ similarities = <<>>
       /\ ~ranked.emitted
       /\ pc \in {"prepare", "exit"}
       /\ pc = "exit" => exitStatus # 0

\* C5 witness: two receptors, the first failed and the second passed
\* preparation, and the process has ended with status 1
C5_Witness ==
  /\ Len(prepared) = 2
  /\ ~prepared[1]
  /\ prepared[2]
  /\ pc = "exit"
  /\ exitStatus = 1
  /\ crash = "none"

\* C6. Pool-vs-sequential equivalence: with a scorer that answers every pair
\* the same way each time and never fails in passing, a row the pool has
\* completed is the row the
\* sequential strategy produces from the same cache files.
C6_PoolEqualsSequential ==
  (RowDone /\ args.concurrency /\ NoTransient /\ RowAnswered) =>
    /\ SequentialRow.ok
    /\ SequentialRow.row = RowResults(tasks)

\* C7. Index stability: the k-th well-formed record gets the zero-based index
\* k, and a run registering the same database again assigns the indices the
\* previous run assigned.
C7_IndexStability ==
  /\ \A k \in DOMAIN receptors :
       receptors[k].valid =>
         receptors[k].index =
           ToString(Cardinality({i \in ValidRecords(args.database) : i < k}))
  /\ (prevIndex.has /\ Len(receptors) = Len(args.database)) =>
       Indices(receptors) = prevIndex.val

\* C7 witness: the second run has registered a database whose first record
\* is malformed and whose second is well formed
C7_Witness ==
  /\ run = 2
  /\ prevIndex.has
  /\ Len(receptors) = 2
  /\ ~receptors[1].valid
  /\ receptors[2].valid
  /\ receptors[2].index = "0"

\* C8. A malformed record does not fail the batch: the null receptor is left
\* out before preparation, and the run does not end in prepare_files because
\* of it.
C8_NullEntityExcluded ==
  /\ pc = "prepare" => \A k \in DOMAIN receptors : receptors[k].valid
  /\ ~(pc = "exit" /\ crash = "TypeError" /\ Len(prepared) < Len(receptors))

\* C9. Ranking of a single-entity query: for every selected index in range,
\* once the row is computed the run emits a ranked list holding every target
\* once with its score against the selected receptor, by descending score,
\* equal scores in receptor order.
C9_RankedForEveryIndex ==
  LET p == args.protein
  IN (/\ args.mode = "pro"
      /\ p.isList
      /\ Len(p.vals) = 1
      /\ InRange(p.vals[1], Len(args.database))
      /\ MatrixDone
      /\ pc = "exit") =>
       LET row == raw_similarities[1]
           l == ranked.list
       IN /\ ranked.emitted
          /\ Len(l) = Len(recs)
          /\ {l[i].key : i \in DOMAIN l} = 0..(Len(recs) - 1)
          /\ \A i \in DOMAIN l :
               /\ l[i].score = Round4(row[l[i].key + 1])
               /\ l[i].info = receptors[l[i].key + 1].info
          /\ \A i, j \in DOMAIN l :
               i < j => \/ row[l[i].key + 1] > row[l[j].key + 1]
                        \/ /\ row[l[i].key + 1] = row[l[j].key + 1]
                           /\ l[i].key < l[j].key

====
